---- MODULE Spec2Model ----
(***************************************************************************)
(* Model of src/src/uirapurudsp/uirapurudsp.py: the FITS inventory         *)
(* (read_fits), the observation grouper (read_obs), the chunk planner      *)
(* (chunk_files) and the data loader (load_fits).                          *)
(*                                                                         *)
(* Every function of the module is sequential and single-threaded, so each *)
(* one is an operator computed the way the code computes it, and one       *)
(* action per function applies it to arguments drawn from bounded sets.    *)
(* A raised Python exception is the value of err; "none" is a return.      *)
(* Positions are 1-based here and 0-based in the code.                     *)
(***************************************************************************)
EXTENDS Integers, Sequences, FiniteSets, TLC

VARIABLES
    op,          \* the function called in this run
    pc,          \* "call" before the function runs, "return" after it returned or raised
    err,         \* "none", or the name of the exception the call raised
    obs,         \* chunk_files / load_fits argument: rows [File, Size] of one observation
    threshold,   \* chunk_files / load_fits argument
    chunks_idx,  \* load_fits argument: <<start, end>>
    chunks,      \* chunk_files: the returned list; load_fits: its local list `chunks`
    file_chunk,  \* chunk_files: the local file_chunk when the function returns
    Xda,         \* load_fits: the returned DataArray [Time, Data, Freq]
    files,       \* read_fits: the glob result, one record per .fit file on disk
    df,          \* read_fits: the returned table; read_obs: its argument
    Grupo,       \* read_obs: the column Grupo it adds to df (<<>> when never added)
    df_sum       \* read_obs: the returned group summary

vars == <<op, pc, err, obs, threshold, chunks_idx, chunks, file_chunk, Xda, files, df,
          Grupo, df_sum>>

(***************************************************************************)
(* Bounds of the model.                                                    *)
(***************************************************************************)
MaxObs == 4        \* rows of an observation handed to chunk_files
MaxLoadObs == 6    \* rows of an observation handed to load_fits
MaxIdx == 3        \* largest start index of chunks_idx (and largest in-range end)

SizeSet == {0, 50, 100, 200}          \* file sizes in MiB, chunk_files runs
ThresholdSet == {-1, 0, 100, 200}     \* thresholds, chunk_files runs
LoadSizeSet == {100, 200}             \* file sizes in MiB, load_fits runs
LoadThresholdSet == {0, 200}          \* thresholds, load_fits runs
DefaultEnd == 10                      \* the end index of the default chunks_idx
MaxFiles == 3      \* .fit files in the directory read_fits scans
MaxRows == 5       \* rows of the inventory handed to read_obs

(***************************************************************************)
(* Helpers on sequences.                                                   *)
(***************************************************************************)
RECURSIVE SumSeq(_)
SumSeq(s) == IF s = <<>> THEN 0 ELSE Head(s) + SumSeq(Tail(s))

RECURSIVE Flatten(_)
Flatten(ss) == IF ss = <<>> THEN <<>> ELSE Head(ss) \o Flatten(Tail(ss))

Front(s) == IF s = <<>> THEN <<>> ELSE SubSeq(s, 1, Len(s) - 1)

\* obs.Size.loc[f] for the file f (File is the row's position in obs)
SizeOf(o, f) == o[f].Size

\* the sizes of a list of files of obs
SizesOf(o, c) == [j \in 1..Len(c) |-> SizeOf(o, c[j])]

\* obs as a DataFrame with columns File and Size, from a sequence of sizes
ObsOf(sizes) == [i \in 1..Len(sizes) |-> [File |-> i, Size |-> sizes[i]]]

SeqsUpTo(S, n) == UNION {[1..k -> S] : k \in 0..n}

(***************************************************************************)
(* chunk_files(obs, threshold)                                             *)
(***************************************************************************)
\* the test of line 109, mutated: the running size may equal the threshold
SizeBelowOrAt(size, thr) == size <= thr

\* line 109: `if size < threshold`
SizeBelow(size, thr) == size < thr

\* line 116, mutated: the in-progress chunk is flushed at the end of the input
ChunkReturnFlushed(st) ==
    IF st.file_chunk = <<>> THEN st.chunks ELSE Append(st.chunks, st.file_chunk)

\* line 116: `return chunks` (the in-progress file_chunk is not appended)
ChunkReturn(st) == st.chunks

\* lines 113-115, mutated: `file_chunk = []` is missing, so the closed chunk
\* keeps growing
RECURSIVE ChunkLoopNoReset(_, _, _, _, _, _)
ChunkLoopNoReset(o, thr, pos, size, fc, cs) ==
    IF pos > Len(o) THEN [chunks |-> cs, file_chunk |-> fc, size |-> size]
    ELSE IF SizeBelow(size, thr)
         THEN ChunkLoopNoReset(o, thr, pos + 1, size + o[pos].Size,
                               Append(fc, o[pos].File), cs)
         ELSE ChunkLoopNoReset(o, thr, pos + 1, 0, fc, Append(cs, fc))

\* lines 108-115: the loop over idxs, from position pos on; the result is the
\* locals [chunks, file_chunk, size] when the loop ends
RECURSIVE ChunkLoop(_, _, _, _, _, _)
ChunkLoop(o, thr, pos, size, fc, cs) ==
    IF pos > Len(o) THEN [chunks |-> cs, file_chunk |-> fc, size |-> size]
    ELSE IF SizeBelow(size, thr)
         THEN ChunkLoop(o, thr, pos + 1, size + o[pos].Size,
                        Append(fc, o[pos].File), cs)
         ELSE ChunkLoop(o, thr, pos + 1, 0, <<>>, Append(cs, fc))

\* lines 104-107 and the loop: the locals at line 116
ChunkLocals(o, thr) == ChunkLoop(o, thr, 1, 0, <<>>, <<>>)

\* lines 103-116
chunk_files(o, thr) == ChunkReturn(ChunkLocals(o, thr))

(***************************************************************************)
(* load_fits(obs, chunks_idx, threshold)                                   *)
(***************************************************************************)
\* an element of the Python list `chunks`: a list of files, or an int
PyList(c) == [type |-> "list", items |-> c, value |-> 0]
PyInt(n) == [type |-> "int", items |-> <<>>, value |-> n]

\* hdul[1].data[0][0] of file f: its per-sample time offsets (1 or 2 samples)
Times(f) == [j \in 1..(1 + (f % 2)) |-> j]

\* lines 134-141: the absolute time coordinate of file f, one entry per sample
TimeVector(f) == [j \in 1..Len(Times(f)) |-> <<f, Times(f)[j]>>]

\* line 142: the primary data array of file f, one row per sample
Datum(f) == [j \in 1..Len(Times(f)) |-> f]

\* Python's cs[a:b] for 0 <= a, 0 <= b
Slice(cs, a, b) ==
    LET hi == IF b < Len(cs) THEN b ELSE Len(cs)
    IN  IF a + 1 > hi THEN <<>> ELSE SubSeq(cs, a + 1, hi)

\* lines 123-124: `chunks[1] = len(chunks)` when the end index is past the list
Clamp(cs, idx) ==
    IF idx[2] > Len(cs)
    THEN IF Len(cs) < 2
         THEN [err |-> "IndexError", chunks |-> cs]
         ELSE [err |-> "none", chunks |-> [cs EXCEPT ![2] = PyInt(Len(cs))]]
    ELSE [err |-> "none", chunks |-> cs]

\* lines 143-144, mutated: the appends are outside the loop over the files, so
\* only the last file of a chunk is kept
FileLoopLastOnly(c, acc) ==
    IF c = <<>> THEN acc
    ELSE [timestamps |-> Append(acc.timestamps, TimeVector(c[Len(c)])),
          data |-> Append(acc.data, Datum(c[Len(c)])),
          freqs |-> c[Len(c)]]

\* lines 128-144: the inner loop appends one time vector and one datum per file
RECURSIVE FileLoop(_, _)
FileLoop(c, acc) ==
    IF c = <<>> THEN acc
    ELSE FileLoop(Tail(c), [timestamps |-> Append(acc.timestamps, TimeVector(Head(c))),
                            data |-> Append(acc.data, Datum(Head(c))),
                            freqs |-> Head(c)])

\* lines 127-146: the loop over the selected chunks; st is the locals
\* [err, timestamps, data, freqs, bound, dda, time_index]
RECURSIVE LoadLoop(_, _)
LoadLoop(sel, st) ==
    IF sel = <<>> THEN st
    ELSE IF Head(sel).type = "int"
    THEN [st EXCEPT !.err = "TypeError"]
    ELSE LET acc == FileLoop(Head(sel).items,
                             [timestamps |-> st.timestamps, data |-> st.data,
                              freqs |-> st.freqs])
         IN  IF acc.data = <<>>
             THEN [st EXCEPT !.err = "ValueError"]
             ELSE LoadLoop(Tail(sel),
                           [err |-> "none",
                            timestamps |-> acc.timestamps, data |-> acc.data,
                            freqs |-> acc.freqs, bound |-> TRUE,
                            dda |-> Flatten(acc.data),
                            time_index |-> Flatten(acc.timestamps)])

NoArray == [Time |-> <<>>, Data |-> <<>>, Freq |-> 0]

\* lines 119-150; the result is [err, chunks, Xda]
load_fits(o, idx, thr) ==
    LET cs0 == chunk_files(o, thr)
        boxed == [i \in 1..Len(cs0) |-> PyList(cs0[i])]
        cl == Clamp(boxed, idx)
        st == LoadLoop(Slice(cl.chunks, idx[1], idx[2]),
                       [err |-> "none", timestamps |-> <<>>, data |-> <<>>,
                        freqs |-> 0, bound |-> FALSE, dda |-> <<>>,
                        time_index |-> <<>>])
    IN  IF cl.err # "none" THEN [err |-> cl.err, chunks |-> cl.chunks, Xda |-> NoArray]
        ELSE IF st.err # "none" THEN [err |-> st.err, chunks |-> cl.chunks, Xda |-> NoArray]
        ELSE IF ~st.bound
        THEN [err |-> "UnboundLocalError", chunks |-> cl.chunks, Xda |-> NoArray]
        ELSE [err |-> "none", chunks |-> cl.chunks,
              Xda |-> [Time |-> st.time_index, Data |-> st.dda, Freq |-> st.freqs]]


(***************************************************************************)
(* The .fit files a directory may hold.  A file is its path (File), its    *)
(* size in bytes and the header fields and table values read_fits reads:   *)
(* DATE-OBS as a day number, TIME-OBS as HHMMSS, MINFREQ and MAXFREQ in    *)
(* Hz, and TIME, the last value of the time-offset table, in seconds.      *)
(***************************************************************************)
MiB == 1048576

\* the instrument settings a file was recorded with
Settings ==
    { [MINFREQ |-> 45000000, MAXFREQ |-> 870000000, NAXIS1 |-> 3600, NAXIS2 |-> 200,
       TIME |-> 900, st_size |-> 512 * MiB, tag |-> 1],
      [MINFREQ |-> 45000000, MAXFREQ |-> 870000000, NAXIS1 |-> 3600, NAXIS2 |-> 200,
       TIME |-> 300, st_size |-> 256 * MiB, tag |-> 2],
      [MINFREQ |-> 45000000, MAXFREQ |-> 450000000, NAXIS1 |-> 3600, NAXIS2 |-> 200,
       TIME |-> 900, st_size |-> 512 * MiB, tag |-> 3],
      [MINFREQ |-> 20000000, MAXFREQ |-> 870000000, NAXIS1 |-> 1800, NAXIS2 |-> 200,
       TIME |-> 900, st_size |-> 768 * MiB, tag |-> 4] }

\* TIME-OBS values: 00:00:00, 00:15:00, 00:30:00, 01:00:00, 01:15:00
TimeObsSet == {0, 1500, 3000, 10000, 11500}

FitsFiles ==
    { [File |-> t * 10 + k.tag, st_size |-> k.st_size, DATE_OBS |-> 0, TIME_OBS |-> t,
       NAXIS2 |-> k.NAXIS2, MINFREQ |-> k.MINFREQ, MAXFREQ |-> k.MAXFREQ,
       NAXIS1 |-> k.NAXIS1, TIME |-> k.TIME] : t \in TimeObsSet, k \in Settings }

(***************************************************************************)
(* read_fits()                                                             *)
(***************************************************************************)
\* lines 32-34: pd.to_datetime of DATE-OBS "T" TIME-OBS, as seconds
ToDatetime(date, hhmmss) ==
    date * 86400 + (hhmmss \div 10000) * 3600 + ((hhmmss \div 100) % 100) * 60
        + (hhmmss % 100)

\* lines 24-29: the row of headers for one file
HeaderRow(f) ==
    [File |-> f.File, Size |-> f.st_size \div (1024 * 1024),
     DATE_OBS |-> f.DATE_OBS, TIME_OBS |-> f.TIME_OBS, NAXIS2 |-> f.NAXIS2,
     MINFREQ |-> f.MINFREQ, MAXFREQ |-> f.MAXFREQ, NAXIS1 |-> f.NAXIS1,
     DELTA |-> f.TIME]

\* lines 14-30: the loop over the files; cols is bound by its first iteration
RECURSIVE HeaderLoop(_, _)
HeaderLoop(fs, st) ==
    IF fs = <<>> THEN st
    ELSE HeaderLoop(Tail(fs), [headers |-> Append(st.headers, HeaderRow(Head(fs))),
                               cols_bound |-> TRUE])

\* lines 31-41 and the drop of line 43: DATE_START, and the frequencies in MHz
Normalise(h) ==
    [File |-> h.File, Size |-> h.Size, NAXIS2 |-> h.NAXIS2,
     MINFREQ |-> h.MINFREQ \div 1000000, MAXFREQ |-> h.MAXFREQ \div 1000000,
     NAXIS1 |-> h.NAXIS1, DELTA |-> h.DELTA,
     DATE_START |-> ToDatetime(h.DATE_OBS, h.TIME_OBS)]

\* line 44: the sort keys ["MINFREQ", "NAXIS1", "DATE_START"]
SortKey(r) == <<r.MINFREQ, r.NAXIS1, r.DATE_START>>

KeyLeq(a, b) ==
    \/ a[1] < b[1]
    \/ a[1] = b[1] /\ a[2] < b[2]
    \/ a[1] = b[1] /\ a[2] = b[2] /\ a[3] <= b[3]

\* x goes after the last row whose key is not above its own (the sort is stable)
RECURSIVE InsertSorted(_, _)
InsertSorted(sorted, x) ==
    IF sorted = <<>> THEN <<x>>
    ELSE IF KeyLeq(SortKey(sorted[Len(sorted)]), SortKey(x))
         THEN Append(sorted, x)
         ELSE Append(InsertSorted(Front(sorted), x), sorted[Len(sorted)])

\* line 44: sort_values
RECURSIVE SortValues(_, _)
SortValues(rows, sorted) ==
    IF rows = <<>> THEN sorted
    ELSE SortValues(Tail(rows), InsertSorted(sorted, Head(rows)))

\* lines 11-47; the result is [err, df]
read_fits(fs) ==
    LET st == HeaderLoop(fs, [headers |-> <<>>, cols_bound |-> FALSE])
    IN  IF ~st.cols_bound
        THEN [err |-> "UnboundLocalError", df |-> <<>>]
        ELSE [err |-> "none",
              df |-> SortValues([i \in 1..Len(st.headers) |-> Normalise(st.headers[i])],
                                <<>>)]

(***************************************************************************)
(* read_obs(df)                                                            *)
(***************************************************************************)
Tolerance == 300   \* line 59: `< 300`, in seconds
NaN == -1          \* the value of Grupo in the rows line 66 never assigns

Abs(x) == IF x < 0 THEN 0 - x ELSE x

\* the elements of a set of integers in ascending order
RECURSIVE Ascending(_)
Ascending(S) ==
    IF S = {} THEN <<>>
    ELSE LET m == CHOOSE x \in S : \A y \in S : x <= y
         IN  <<m>> \o Ascending(S \ {m})

\* line 53: the groupby key of a row
BucketKey(r) == <<r.MINFREQ, r.MAXFREQ, r.NAXIS1>>

BucketKeys(d) == {BucketKey(d[i]) : i \in 1..Len(d)}

\* the rows of one bucket, in the order of df
BucketRows(d, key) == Ascending({i \in 1..Len(d) : BucketKey(d[i]) = key})

\* the gap of line 57 taken with the duration-delta of the earlier row of the
\* pair instead of the later one
GapEarlierDelta(d, prev, cur) ==
    (d[cur].DATE_START - d[prev].DATE_START) - d[prev].DELTA

\* line 57: val.iloc[:, 1].diff().dt.total_seconds()[1:] - val.iloc[1:, 0];
\* the two series are aligned on the index of the later row of the pair
Gap(d, prev, cur) == (d[cur].DATE_START - d[prev].DATE_START) - d[cur].DELTA

\* lines 56-59: the lambda on one bucket; a boolean per row but the first
Contiguity(d, rows) ==
    [j \in 1..(Len(rows) - 1) |->
        [idx |-> rows[j + 1],
         val |-> Abs(Gap(d, rows[j], rows[j + 1])) < Tolerance]]

IndexOf(res) == [j \in 1..Len(res) |-> res[j].idx]

\* lines 53-60: groupby(...).apply(...). When every bucket's result has the
\* same index pandas stacks the results into a DataFrame, one row per bucket
\* and one column per index label; otherwise it concatenates them into one
\* Series.
Apply(d) ==
    LET res == [key \in BucketKeys(d) |-> Contiguity(d, BucketRows(d, key))]
        same == \A k1, k2 \in BucketKeys(d) : IndexOf(res[k1]) = IndexOf(res[k2])
        any == CHOOSE key \in BucketKeys(d) : TRUE
    IN  [frame |-> same,
         columns |-> IF same /\ BucketKeys(d) # {} THEN IndexOf(res[any]) ELSE <<>>,
         res |-> res]

\* line 61: dfg.sum() of a DataFrame: one count of True per column
ColumnSums(dfg) ==
    [j \in 1..Len(dfg.columns) |->
        [idx |-> dfg.columns[j],
         val |-> Cardinality({key \in DOMAIN dfg.res : dfg.res[key][j].val})]]

\* lines 62-63: the maximal runs of equal values of the series, those of ones
\* kept; a run is the list of its index labels
RECURSIVE Runs(_, _, _)
Runs(series, j, acc) ==
    IF j > Len(series) THEN acc
    ELSE IF series[j].val # 1 THEN Runs(series, j + 1, acc)
    ELSE IF j > 1 /\ series[j - 1].val = 1
         THEN Runs(series, j + 1,
                   [acc EXCEPT ![Len(acc)] = Append(acc[Len(acc)], series[j].idx)])
         ELSE Runs(series, j + 1, Append(acc, <<series[j].idx>>))

\* lines 64-66: df.loc[idx, "Grupo"] = ii for the ii-th run (ii from 0)
AssignGrupo(d, contiguous_ones) ==
    IF contiguous_ones = <<>> THEN <<>>
    ELSE [i \in 1..Len(d) |->
            IF \E g \in 1..Len(contiguous_ones) :
                   \E j \in 1..Len(contiguous_ones[g]) : contiguous_ones[g][j] = i
            THEN (CHOOSE g \in 1..Len(contiguous_ones) :
                     \E j \in 1..Len(contiguous_ones[g]) : contiguous_ones[g][j] = i) - 1
            ELSE NaN]

\* n / d rounded to the nearest integer, ties to the even one
RoundHalfEven(n, d) ==
    LET q == n \div d
        r == n % d
    IN  IF 2 * r < d THEN q
        ELSE IF 2 * r > d THEN q + 1
        ELSE IF q % 2 = 0 THEN q ELSE q + 1

\* lines 83-84: Size / 1024 rounded to 2 decimals, in hundredths of a GiB
SizeGiB(mib) == RoundHalfEven(mib * 100, 1024)

\* lines 67-89: one summary row per value of Grupo; the rows with no Grupo
\* are dropped. DELTA is in whole seconds, which the rounding of lines 85-87
\* leaves as they are.
Summary(d, grupo, n) ==
    [g \in 1..n |->
        LET rows == Ascending({i \in 1..Len(d) : grupo[i] = g - 1})
        IN  [Grupo |-> g - 1,
             DATE_START |-> d[rows[1]].DATE_START,
             DELTA |-> SumSeq([j \in 1..Len(rows) |-> d[rows[j]].DELTA]),
             Size |-> SizeGiB(SumSeq([j \in 1..Len(rows) |-> d[rows[j]].Size])),
             MINFREQ |-> d[rows[1]].MINFREQ,
             MAXFREQ |-> d[rows[1]].MAXFREQ,
             NAXIS1 |-> d[rows[1]].NAXIS1]]

\* lines 50-90 for a DataFrame argument; the result is [err, Grupo, df_sum].
\* The sum of a Series (line 61) is a number, which has no shift (line 62);
\* with no run of ones the column Grupo is never created and line 69 fails.
read_obs(d) ==
    LET dfg == Apply(d)
        contiguous_ones == Runs(ColumnSums(dfg), 1, <<>>)
        grupo == AssignGrupo(d, contiguous_ones)
    IN  IF ~dfg.frame
        THEN [err |-> "AttributeError", Grupo |-> <<>>, df_sum |-> <<>>]
        ELSE IF contiguous_ones = <<>>
        THEN [err |-> "KeyError", Grupo |-> <<>>, df_sum |-> <<>>]
        ELSE [err |-> "none", Grupo |-> grupo,
              df_sum |-> Summary(d, grupo, Len(contiguous_ones))]

(***************************************************************************)
(* Actions and specifications.                                             *)
(***************************************************************************)
InitChunk ==
    /\ op = "chunk_files"
    /\ pc = "call"
    /\ err = "none"
    /\ \E sizes \in SeqsUpTo(SizeSet, MaxObs) : obs = ObsOf(sizes)
    /\ threshold \in ThresholdSet
    /\ chunks_idx = <<0, 0>>
    /\ chunks = <<>>
    /\ file_chunk = <<>>
    /\ Xda = NoArray
    /\ files = <<>>
    /\ df = <<>>
    /\ Grupo = <<>>
    /\ df_sum = <<>>

CallChunkFiles ==
    /\ op = "chunk_files"
    /\ pc = "call"
    /\ chunks' = chunk_files(obs, threshold)
    /\ file_chunk' = ChunkLocals(obs, threshold).file_chunk
    /\ pc' = "return"
    /\ UNCHANGED <<op, err, obs, threshold, chunks_idx, Xda, files, df, Grupo, df_sum>>

SpecChunk == InitChunk /\ [][CallChunkFiles]_vars

InitLoad ==
    /\ op = "load_fits"
    /\ pc = "call"
    /\ err = "none"
    /\ \E sizes \in SeqsUpTo(LoadSizeSet, MaxLoadObs) : obs = ObsOf(sizes)
    /\ threshold \in LoadThresholdSet
    /\ chunks_idx \in (0..MaxIdx) \X ((0..MaxIdx) \cup {DefaultEnd})
    /\ chunks = <<>>
    /\ file_chunk = <<>>
    /\ Xda = NoArray
    /\ files = <<>>
    /\ df = <<>>
    /\ Grupo = <<>>
    /\ df_sum = <<>>

CallLoadFits ==
    /\ op = "load_fits"
    /\ pc = "call"
    /\ LET r == load_fits(obs, chunks_idx, threshold)
       IN  /\ err' = r.err
           /\ chunks' = r.chunks
           /\ Xda' = r.Xda
    /\ pc' = "return"
    /\ UNCHANGED <<op, obs, threshold, chunks_idx, file_chunk, files, df, Grupo, df_sum>>

SpecLoad == InitLoad /\ [][CallLoadFits]_vars

\* the glob results: the files of a directory in any order, no file twice
Listings(n) ==
    {fs \in SeqsUpTo(FitsFiles, n) : \A i, j \in 1..Len(fs) : i # j => fs[i] # fs[j]}

InitFits ==
    /\ op = "read_fits"
    /\ pc = "call"
    /\ err = "none"
    /\ obs = <<>>
    /\ threshold = 0
    /\ chunks_idx = <<0, 0>>
    /\ chunks = <<>>
    /\ file_chunk = <<>>
    /\ Xda = NoArray
    /\ files \in Listings(MaxFiles)
    /\ df = <<>>
    /\ Grupo = <<>>
    /\ df_sum = <<>>

CallReadFits ==
    /\ op = "read_fits"
    /\ pc = "call"
    /\ LET r == read_fits(files)
       IN  /\ err' = r.err
           /\ df' = r.df
    /\ pc' = "return"
    /\ UNCHANGED <<op, obs, threshold, chunks_idx, chunks, file_chunk, Xda, files, Grupo,
                   df_sum>>

SpecFits == InitFits /\ [][CallReadFits]_vars

\* the sets of at most n files
RECURSIVE Directories(_)
Directories(n) ==
    IF n = 0 THEN {{}}
    ELSE LET P == Directories(n - 1)
         IN  P \cup {S \cup {f} : S \in P, f \in FitsFiles}

\* a directory listed by ascending or by descending path
Listing(S, asc) ==
    LET paths == Ascending({f.File : f \in S})
        n == Len(paths)
    IN  [i \in 1..n |->
            CHOOSE f \in S : f.File = paths[IF asc THEN i ELSE n + 1 - i]]

\* read_obs is handed the inventory read_fits returned for some directory
InitObs ==
    /\ op = "read_obs"
    /\ pc = "call"
    /\ err = "none"
    /\ obs = <<>>
    /\ threshold = 0
    /\ chunks_idx = <<0, 0>>
    /\ chunks = <<>>
    /\ file_chunk = <<>>
    /\ Xda = NoArray
    /\ files = <<>>
    /\ \E S \in Directories(MaxRows) \ {{}} : \E asc \in BOOLEAN :
           df = read_fits(Listing(S, asc)).df
    /\ Grupo = <<>>
    /\ df_sum = <<>>

CallReadObs ==
    /\ op = "read_obs"
    /\ pc = "call"
    /\ LET r == read_obs(df)
       IN  /\ err' = r.err
           /\ Grupo' = r.Grupo
           /\ df_sum' = r.df_sum
    /\ pc' = "return"
    /\ UNCHANGED <<op, obs, threshold, chunks_idx, chunks, file_chunk, Xda, files, df>>

SpecObs == InitObs /\ [][CallReadObs]_vars

(***************************************************************************)
(* Claims about read_fits, checked under SpecFits.                         *)
(***************************************************************************)
\* the call of f has returned or raised
Returned(f) == op = f /\ pc = "return"

\* C8: on a directory with no .fit file read_fits returns an empty inventory
\* and raises nothing.
C8_EmptyDirectoryEmptyInventory ==
    (op = "read_fits" /\ pc = "return" /\ files = <<>>) =>
        /\ err = "none"
        /\ df = <<>>

\* C13: in the returned inventory the records of one bucket (MINFREQ,
\* MAXFREQ, NAXIS1) are in adjacent rows and in ascending start order.
C13_BucketsAdjacentAndTimeSorted ==
    (Returned("read_fits") /\ err = "none") =>
        \A i, j \in 1..Len(df) :
            (i < j /\ BucketKey(df[i]) = BucketKey(df[j]))
            => /\ df[i].DATE_START <= df[j].DATE_START
               /\ \A k \in i..j : BucketKey(df[k]) = BucketKey(df[i])

(***************************************************************************)
(* Claims about chunk_files, checked under SpecChunk.                      *)
(***************************************************************************)
\* the chunk that follows the k-th returned chunk: the next returned chunk, or
\* the chunk in progress when the input ended
NextChunk(k) == IF k < Len(chunks) THEN chunks[k + 1] ELSE file_chunk

\* C1: whenever a chunk is closed, the file that triggered the closure (the
\* file right after the files chunked so far, none being skipped) is the
\* first element of the next chunk.
C1_TriggerStartsNextChunk ==
    Returned("chunk_files") =>
        \A k \in 1..Len(chunks) :
            /\ NextChunk(k) # <<>>
            /\ Head(NextChunk(k)) = Len(Flatten(SubSeq(chunks, 1, k))) + 1

\* C4: in every returned chunk a file was only added while the running size
\* of the chunk was strictly below the threshold; in particular the files of
\* the chunk except its last one sum to strictly less than the threshold.
C4_OnlyLastFileExceeds ==
    Returned("chunk_files") =>
        \A k \in 1..Len(chunks) :
            \A j \in 1..Len(chunks[k]) :
                SumSeq(SizesOf(obs, SubSeq(chunks[k], 1, j - 1))) < threshold

\* C4 witness: a returned chunk of several files whose cumulative size is over
\* the threshold, by its last file only.
C4_Witness ==
    /\ Returned("chunk_files")
    /\ \E k \in 1..Len(chunks) :
           /\ Len(chunks[k]) >= 2
           /\ SumSeq(SizesOf(obs, chunks[k])) > threshold
           /\ SumSeq(SizesOf(obs, Front(chunks[k]))) < threshold

\* C5: every returned chunk is a non-empty list, for every threshold.
C5_ChunksNonEmpty ==
    Returned("chunk_files") => \A k \in 1..Len(chunks) : chunks[k] # <<>>

\* C6: the in-progress chunk is never flushed. The returned chunks are exactly
\* the ones a later file closed after their size had reached the threshold,
\* the files of the in-progress chunk are in no returned chunk, and an empty
\* input, or one whose running size is below the threshold before its last
\* file, returns no chunk at all.
C6_TrailingChunkNotFlushed ==
    Returned("chunk_files") =>
        /\ \A k \in 1..Len(chunks) :
               /\ SumSeq(SizesOf(obs, chunks[k])) >= threshold
               /\ \A j \in 1..Len(chunks[k]) : chunks[k][j] < Len(obs)
        /\ Len(chunks) >= 1 => Len(obs) >= 1
        /\ \A j \in 1..Len(file_chunk) :
               \A k \in 1..Len(chunks) :
                   \A i \in 1..Len(chunks[k]) : chunks[k][i] # file_chunk[j]
        /\ (obs = <<>> \/ SumSeq(Front(SizesOf(obs, [i \in 1..Len(obs) |-> i]))) < threshold)
               => chunks = <<>>

\* C6 witness: the running size reaches the threshold exactly at the last
\* file, and the chunk holding every file is not returned.
C6_Witness ==
    /\ Returned("chunk_files")
    /\ Len(obs) >= 2
    /\ SumSeq(Front(SizesOf(obs, [i \in 1..Len(obs) |-> i]))) < threshold
    /\ SumSeq(SizesOf(obs, [i \in 1..Len(obs) |-> i])) >= threshold
    /\ Len(file_chunk) = Len(obs)
    /\ chunks = <<>>

\* C15: the concatenation of the returned chunks is a subsequence of the input
\* file list in the input's order, with no file twice (a file is its position
\* in the input, so the concatenation is strictly increasing).
C15_ChunksAreSubsequence ==
    Returned("chunk_files") =>
        LET fl == Flatten(chunks)
        IN  /\ \A j \in 1..Len(fl) : fl[j] \in 1..Len(obs) /\ fl[j] = obs[fl[j]].File
            /\ \A j, k \in 1..Len(fl) : j < k => fl[j] < fl[k]

\* C15 witness: two chunks with files are returned, and some file of the input
\* is in neither.
C15_Witness ==
    /\ Returned("chunk_files")
    /\ Len(chunks) >= 2
    /\ \A k \in 1..Len(chunks) : chunks[k] # <<>>
    /\ Len(Flatten(chunks)) < Len(obs)

(***************************************************************************)
(* Claims about load_fits, checked under SpecLoad.                         *)
(***************************************************************************)
\* the chunk list as chunk_files returned it to load_fits (line 122)
PlannedChunks == LET cs == chunk_files(obs, threshold)
                 IN  [i \in 1..Len(cs) |-> PyList(cs[i])]

\* C2: an end index past the chunk count is clamped to the chunk count: the
\* call ends like the call with end = len(chunks), and the chunk list is
\* not altered.
C2_EndIndexClamped ==
    (Returned("load_fits") /\ chunks_idx[2] > Len(PlannedChunks)) =>
        LET r == load_fits(obs, <<chunks_idx[1], Len(PlannedChunks)>>, threshold)
        IN  /\ err = r.err
            /\ Xda = r.Xda
            /\ chunks = PlannedChunks

\* C7: an empty chunk range, or an observation with no chunks, returns an
\* empty result and raises nothing.
C7_EmptyRangeReturnsEmpty ==
    (Returned("load_fits") /\ (chunks_idx[1] = chunks_idx[2] \/ PlannedChunks = <<>>)) =>
        /\ err = "none"
        /\ Xda.Time = <<>>

\* the files of the selected chunks, in chunk order and then file order
SelectedFiles ==
    LET sel == Slice(PlannedChunks, chunks_idx[1], chunks_idx[2])
    IN  Flatten([k \in 1..Len(sel) |-> sel[k].items])

\* the selected range holds at least one chunk, lies within the chunk list
\* and none of its chunks is empty
RangeOfChunks ==
    LET sel == Slice(PlannedChunks, chunks_idx[1], chunks_idx[2])
    IN  /\ chunks_idx[1] < chunks_idx[2]
        /\ chunks_idx[2] <= Len(PlannedChunks)
        /\ \A k \in 1..Len(sel) : sel[k].items # <<>>

\* C11: the Time coordinate load_fits returns is the concatenation of the
\* time vectors of the files of the selected chunks, in chunk order and then
\* file order, each file once; its length is the sum of the per-file sample
\* counts. A range of one or more chunks within the chunk list does return.
C11_TimeIsConcatenation ==
    Returned("load_fits") =>
        /\ RangeOfChunks => err = "none"
        /\ err = "none" =>
              /\ Xda.Time
                    = Flatten([j \in 1..Len(SelectedFiles) |-> TimeVector(SelectedFiles[j])])
              /\ Len(Xda.Time)
                    = SumSeq([j \in 1..Len(SelectedFiles) |-> Len(Times(SelectedFiles[j]))])

\* C11 witness: a returned load of two chunks, one of them of several files.
C11_Witness ==
    /\ Returned("load_fits")
    /\ err = "none"
    /\ chunks_idx[2] - chunks_idx[1] >= 2
    /\ chunks_idx[2] <= Len(PlannedChunks)
    /\ \E k \in (chunks_idx[1] + 1)..chunks_idx[2] : Len(PlannedChunks[k].items) >= 2
    /\ Len(Xda.Time) > Len(SelectedFiles)

(***************************************************************************)
(* Claims about read_obs, checked under SpecObs.                           *)
(***************************************************************************)
\* the pair of rows (prev, cur) is contiguous, whichever of the two rows'
\* duration-delta the gap is taken with
PairContiguous(prev, cur) ==
    /\ Abs(Gap(df, prev, cur)) < Tolerance
    /\ Abs(GapEarlierDelta(df, prev, cur)) < Tolerance

\* the pair of rows (prev, cur) is 300 s or more apart, whichever of the two
\* rows' duration-delta the gap is taken with
PairApart(prev, cur) ==
    /\ Gap(df, prev, cur) >= Tolerance
    /\ GapEarlierDelta(df, prev, cur) >= Tolerance

\* the summary rows of the bucket key
GroupsOf(key) == {g \in 1..Len(df_sum) : BucketKey(df_sum[g]) = key}

\* the rows of df with the value g of Grupo
RowsOfGrupo(g) == Ascending({i \in 1..Len(Grupo) : Grupo[i] = g})

\* C3: a bucket of at least 2 records whose consecutive pairs are all
\* contiguous yields exactly one group; the group spans every record of the
\* bucket, the first one included: it starts at the first record's start and
\* its DELTA and Size are the sums over all the records of the bucket.
C3_OneGroupSpansBucket ==
    Returned("read_obs") =>
        \A key \in BucketKeys(df) :
            LET rows == BucketRows(df, key)
            IN  (/\ Len(rows) >= 2
                 /\ \A j \in 1..(Len(rows) - 1) : PairContiguous(rows[j], rows[j + 1]))
                => /\ err = "none"
                   /\ Cardinality(GroupsOf(key)) = 1
                   /\ \A g \in GroupsOf(key) :
                          /\ RowsOfGrupo(df_sum[g].Grupo) = rows
                          /\ df_sum[g].DATE_START = df[rows[1]].DATE_START
                          /\ df_sum[g].DELTA
                                = SumSeq([j \in 1..Len(rows) |-> df[rows[j]].DELTA])
                          /\ df_sum[g].Size
                                = SizeGiB(SumSeq([j \in 1..Len(rows) |-> df[rows[j]].Size]))

\* C9: on an inventory with no contiguous pair (every bucket has fewer than 2
\* records, or every gap is 300 s or more) read_obs returns an empty summary
\* and raises nothing.
C9_NoGroupsEmptySummary ==
    (/\ Returned("read_obs")
     /\ \A key \in BucketKeys(df) :
            LET rows == BucketRows(df, key)
            IN  \A j \in 1..(Len(rows) - 1) : PairApart(rows[j], rows[j + 1]))
    => /\ err = "none"
       /\ df_sum = <<>>

\* C10: a bucket whose consecutive pairs are all contiguous but one, 300 s or
\* more apart, with a contiguous pair on each side of it, yields exactly two
\* groups.
C10_OneGapTwoGroups ==
    Returned("read_obs") =>
        \A key \in BucketKeys(df) :
            LET rows == BucketRows(df, key)
                n == Len(rows)
            IN  (\E m \in 2..(n - 2) :
                     /\ PairApart(rows[m], rows[m + 1])
                     /\ \A j \in (1..(n - 1)) \ {m} : PairContiguous(rows[j], rows[j + 1]))
                => /\ err = "none"
                   /\ Cardinality(GroupsOf(key)) = 2

\* the runs of contiguous pairs of one bucket, as lines 62-63 take them from
\* the contiguity values of that bucket alone
BucketRuns(key) ==
    LET res == Contiguity(df, BucketRows(df, key))
    IN  Runs([j \in 1..Len(res) |->
                 [idx |-> res[j].idx, val |-> IF res[j].val THEN 1 ELSE 0]], 1, <<>>)

\* the number of runs of contiguous pairs over all the buckets
RECURSIVE CountRuns(_)
CountRuns(keys) ==
    IF keys = {} THEN 0
    ELSE LET key == CHOOSE k \in keys : TRUE
         IN  Len(BucketRuns(key)) + CountRuns(keys \ {key})

\* C12: the contiguity test of the pair (i-1, i) of a bucket takes the gap
\* with the duration-delta of the earlier record, delta[i-1].
C12_GapUsesEarlierDelta ==
    Returned("read_obs") =>
        \A key \in BucketKeys(df) :
            LET rows == BucketRows(df, key)
                res == Contiguity(df, rows)
            IN  \A j \in 1..(Len(rows) - 1) :
                    res[j].val
                        = (Abs(GapEarlierDelta(df, rows[j], rows[j + 1])) < Tolerance)

\* C14: the records of one group share their bucket, and every run of
\* contiguous pairs of every bucket has a group id, the ids being 0, 1, 2, ...
\* over all the buckets.
C14_GroupsWithinBucketsNumberedAcross ==
    Returned("read_obs") =>
        /\ \A i, j \in 1..Len(Grupo) :
               (Grupo[i] # NaN /\ Grupo[i] = Grupo[j])
               => BucketKey(df[i]) = BucketKey(df[j])
        /\ {Grupo[i] : i \in 1..Len(Grupo)} \ {NaN} = 0..(CountRuns(BucketKeys(df)) - 1)

====
